---------------------------- MODULE Spec2Model ----------------------------
(***************************************************************************)
(* Model of the product catalog service of fastapi-ecommerce:              *)
(*   app/schema/product.py  - the pydantic models Product / ProductUpdate  *)
(*   app/main.py            - the HTTP handlers                            *)
(*   service/products.py    - the persistence gateway (add_product,        *)
(*                            remove_product, change_product, ...); its    *)
(*                            source is not part of the tree, so it is     *)
(*                            modelled from section 4.2 of the             *)
(*                            specification.                               *)
(*                                                                         *)
(* Representation.                                                         *)
(*  - A str is a sequence of one-character strings.                        *)
(*  - A JSON object / dict is a function whose DOMAIN is its set of keys.  *)
(*  - A value of an Optional[...] field of ProductUpdate is <<>> (None)    *)
(*    or <<v>>.                                                            *)
(*  - UUIDs and timestamps are numbers; uuid4() is a fresh number.         *)
(*  - Prices are whole rupees, final_price is kept in 1/100 rupee so that  *)
(*    round(.., 2) is exact.                                               *)
(*  - The fields description, category, brand, currency, tags and seller   *)
(*    carry only per-field constraints that no checked property reads;     *)
(*    requests always supply them validly and they are left out of the     *)
(*    dicts.                                                               *)
(*  - One request is handled to completion before the next (section 5 of   *)
(*    the specification): a handler step takes pc from "idle" to "done",   *)
(*    leaving the request and its response in req / resp; Receive hands    *)
(*    the response to the client and returns to "idle".                    *)
(***************************************************************************)
EXTENDS Integers, Sequences, FiniteSets, TLC

VARIABLES
    store,      \* the persisted list of product dicts, in file order
    nextId,     \* uuid4(): the next fresh UUID
    clock,      \* datetime.utcnow()
    pc,         \* "idle" | "done"
    req,        \* the request being answered (pc = "done")
    resp,       \* its response: [code, body]
    handed,     \* the dict handed to add_product / change_product, if any
    deleted     \* ids whose DELETE succeeded (history)

vars == <<store, nextId, clock, pc, req, resp, handed, deleted>>

---------------------------------------------------------------------------
(* Bounds of the model *)

MaxCreates == 2
MaxImages == 2
MaxSkuLen == 7
MaxListed == 3
MaxOffset == 4

---------------------------------------------------------------------------
(* Program constants *)

SkuMinLen == 6
SkuMaxLen == 30
NameMinLen == 3
NameMaxLen == 80
DiscountMax == 90
RatingMax == 5
ImageUrlsMaxLen == 1
LimitMin == 1
LimitMax == 100
LimitDefault == 10

---------------------------------------------------------------------------
(* Strings *)

None == <<>>
Some(v) == <<v>>

Digits == {"0", "1", "2", "3", "4", "5", "6", "7", "8", "9"}

RECURSIVE Repeat(_, _)
Repeat(c, n) == IF n = 0 THEN <<>> ELSE <<c>> \o Repeat(c, n - 1)

\* str.lower() on the characters the model uses
LowerChar(c) ==
    CASE c = "E" -> "e"
      [] c = "N" -> "n"
      [] c = "B" -> "b"
      [] OTHER -> c

Lower(s) == [i \in 1..Len(s) |-> LowerChar(s[i])]

RECURSIVE LStrip(_)
LStrip(s) == IF s # <<>> /\ Head(s) = " " THEN LStrip(Tail(s)) ELSE s

RECURSIVE RStrip(_)
RStrip(s) ==
    IF s # <<>> /\ s[Len(s)] = " " THEN RStrip(SubSeq(s, 1, Len(s) - 1)) ELSE s

\* str.strip()
Strip(s) == RStrip(LStrip(s))

\* needle in hay
Contains(hay, needle) ==
    \E i \in 1..(Len(hay) - Len(needle) + 1) :
        SubSeq(hay, i, i + Len(needle) - 1) = needle

\* value.split(sep): the segments between the separators, left to right
RECURSIVE SplitFrom(_, _, _)
SplitFrom(s, sep, cur) ==
    IF s = <<>> THEN <<cur>>
    ELSE IF Head(s) = sep THEN <<cur>> \o SplitFrom(Tail(s), sep, <<>>)
    ELSE SplitFrom(Tail(s), sep, Append(cur, Head(s)))

Split(s, sep) == SplitFrom(s, sep, <<>>)

\* str.isdigit()
IsDigit(s) == s # <<>> /\ \A i \in 1..Len(s) : s[i] \in Digits

Restrict(f, S) == [k \in S |-> f[k]]

\* dict.update: the keys of b override those of a
Merge(a, b) ==
    [k \in DOMAIN a \cup DOMAIN b |-> IF k \in DOMAIN b THEN b[k] ELSE a[k]]

---------------------------------------------------------------------------
(* schema/product.py: Product *)

ProductFields ==
    {"id", "sku", "name", "price", "discount_percent", "stock", "is_active",
     "rating", "image_urls", "dimensions_cm", "created_at"}

ComputedFields == {"final_price", "volume_cm3"}

\* A mutant of validate_sku_format: the segment after the FIRST hyphen
validate_sku_format_first(value) ==
    /\ \E i \in 1..Len(value) : value[i] = "-"
    /\ LET parts == Split(value, "-")
           last == parts[2]
       IN  Len(last) = 3 /\ IsDigit(last)

\* Product.validate_sku_format: TRUE iff no ValueError is raised
validate_sku_format(value) ==
    /\ \E i \in 1..Len(value) : value[i] = "-"
    /\ LET parts == Split(value, "-")
           last == parts[Len(parts)]
       IN  Len(last) = 3 /\ IsDigit(last)

\* A mutant of Product.validate_business_rules: the stock rule is lost
Product_validate_business_rules_nostock(model) ==
    ~(model.discount_percent > 0 /\ model.rating = 0)

\* Product.validate_business_rules: TRUE iff no ValueError is raised
Product_validate_business_rules(model) ==
    /\ ~(model.stock = 0 /\ model.is_active = TRUE)
    /\ ~(model.discount_percent > 0 /\ model.rating = 0)

\* DimensionsCM: every side gt=0
DimensionsCM_valid(d) == d.length > 0 /\ d.width > 0 /\ d.height > 0

\* The field declarations of Product: every field required, each constraint
Product_fields_valid(p) ==
    /\ ProductFields \subseteq DOMAIN p
    /\ Len(p.sku) >= SkuMinLen /\ Len(p.sku) <= SkuMaxLen
    /\ validate_sku_format(p.sku)
    /\ Len(p.name) >= NameMinLen /\ Len(p.name) <= NameMaxLen
    /\ p.price > 0
    /\ p.discount_percent >= 0 /\ p.discount_percent <= DiscountMax
    /\ p.stock >= 0
    /\ p.rating >= 0 /\ p.rating <= RatingMax
    /\ Len(p.image_urls) <= ImageUrlsMaxLen
    /\ DimensionsCM_valid(p.dimensions_cm)

\* Validation of a request body as a Product: field pass, then the
\* mode="after" model validator
Product_valid(p) == Product_fields_valid(p) /\ Product_validate_business_rules(p)

\* Product.final_price, in 1/100
final_price(price, discount_percent) == price * (100 - discount_percent)

\* Product.volume_cm3
volume_cm3(d) == d.length * d.width * d.height

\* product.model_dump(mode="json"): the declared fields and the computed fields
Product_model_dump(p) ==
    Merge(Restrict(p, ProductFields),
          [final_price |-> final_price(p.price, p.discount_percent),
           volume_cm3 |-> volume_cm3(p.dimensions_cm)])


---------------------------------------------------------------------------
(* schema/product.py: ProductUpdate *)

UpdateFields ==
    {"name", "price", "discount_percent", "stock", "is_active", "rating",
     "image_urls", "dimensions_cm"}

DimensionFields == {"length", "width", "height"}

\* DimensionsCMUpdate: Optional[float] = Field(gt=0) has no default, so each
\* side is required and may be None
DimensionsCMUpdate_valid(d) ==
    /\ DimensionFields \subseteq DOMAIN d
    /\ \A k \in DimensionFields : d[k] = None \/ d[k][1] > 0

\* The field declarations of ProductUpdate.  Optional[T] = Field(...) and a
\* bare Optional[T] give no default: every field is required, None allowed.
ProductUpdate_fields_valid(u) ==
    /\ UpdateFields \subseteq DOMAIN u
    /\ u.name = None
         \/ (Len(u.name[1]) >= NameMinLen /\ Len(u.name[1]) <= NameMaxLen)
    /\ u.price = None \/ u.price[1] > 0
    /\ u.discount_percent = None
         \/ (u.discount_percent[1] >= 0 /\ u.discount_percent[1] <= DiscountMax)
    /\ u.stock = None \/ u.stock[1] >= 0
    /\ u.rating = None \/ (u.rating[1] >= 0 /\ u.rating[1] <= RatingMax)
    /\ u.dimensions_cm = None \/ DimensionsCMUpdate_valid(u.dimensions_cm[1])

\* ProductUpdate.validate_business_rules, run on the payload object itself:
\* "ok", "ValueError", or "TypeError" (None > 0)
ProductUpdate_validate_business_rules(model) ==
    IF model.stock = Some(0) /\ model.is_active = Some(TRUE) THEN "ValueError"
    ELSE IF model.discount_percent = None THEN "TypeError"
    ELSE IF model.discount_percent[1] > 0 /\ model.rating = Some(0)
         THEN "ValueError"
    ELSE "ok"

\* Validation of a request body as a ProductUpdate
ProductUpdate_validate(u) ==
    IF ~ProductUpdate_fields_valid(u) THEN "ValueError"
    ELSE ProductUpdate_validate_business_rules(u)

\* ProductUpdate.final_price raises TypeError on a None operand
ProductUpdate_final_price_raises(u) ==
    u.price = None \/ u.discount_percent = None

\* ProductUpdate.volume_cm3 raises on dimensions_cm None or a None side
ProductUpdate_volume_cm3_raises(u) ==
    \/ u.dimensions_cm = None
    \/ \E k \in DimensionFields : u.dimensions_cm[1][k] = None

\* payload.model_dump(mode="json", exclude_unset=True): every field that was
\* set (None included) and the two computed fields
ProductUpdate_model_dump(u) ==
    Merge(Restrict(u, DOMAIN u \cap UpdateFields),
          [final_price |->
               Some(final_price(u.price[1], u.discount_percent[1])),
           volume_cm3 |->
               Some(volume_cm3([k \in DimensionFields |->
                                   u.dimensions_cm[1][k][1]]))])

---------------------------------------------------------------------------
(* service/products.py: the persistence gateway *)

\* get_all_products() / load_products(): the full current snapshot
get_all_products == store

HasId(products, id) == \E i \in 1..Len(products) : products[i].id = id

IndexOfId(products, id) ==
    CHOOSE i \in 1..Len(products) : products[i].id = id

RemoveAt(products, i) ==
    SubSeq(products, 1, i - 1) \o SubSeq(products, i + 1, Len(products))

\* insert: DuplicateId if the id exists, otherwise append and persist
add_product(products, product_dict) ==
    IF HasId(products, product_dict.id)
    THEN [ok |-> FALSE, products |-> products]
    ELSE [ok |-> TRUE, products |-> Append(products, product_dict)]

\* delete: NotFound if absent, otherwise remove, persist, return the record
remove_product(products, id) ==
    IF ~HasId(products, id)
    THEN [ok |-> FALSE, products |-> products, res |-> None]
    ELSE LET i == IndexOfId(products, id)
         IN  [ok |-> TRUE, products |-> RemoveAt(products, i),
              res |-> Some(products[i])]

\* The invariants of a persisted Product (section 3 of the specification)
ProductInvariants(r) ==
    /\ Len(r.sku) >= SkuMinLen /\ Len(r.sku) <= SkuMaxLen
    /\ \E i \in 1..Len(r.sku) : r.sku[i] = "-"
    /\ LET parts == Split(r.sku, "-")
       IN  Len(parts[Len(parts)]) = 3 /\ IsDigit(parts[Len(parts)])
    /\ r.stock = 0 => r.is_active = FALSE
    /\ r.discount_percent > 0 => r.rating # 0
    /\ r.price > 0
    /\ r.rating >= 0 /\ r.rating <= RatingMax
    /\ r.discount_percent >= 0 /\ r.discount_percent <= DiscountMax
    /\ r.stock >= 0
    /\ DimensionsCM_valid(r.dimensions_cm)
    /\ Len(r.image_urls) >= 1

\* The JSON value of a field of the dumped payload
Unwrap(k, v) ==
    IF k = "dimensions_cm" THEN [d \in DimensionFields |-> v[1][d][1]]
    ELSE v[1]

\* update: NotFound if absent; merge the fields onto the stored record,
\* re-validate the invariants on the merged record, persist, return it.
\* A None value leaves the merged record without a well-typed attribute and
\* fails the re-validation.
change_product(products, id, update_data) ==
    IF ~HasId(products, id)
    THEN [ok |-> FALSE, products |-> products, res |-> None]
    ELSE IF \E k \in DOMAIN update_data : update_data[k] = None
    THEN [ok |-> FALSE, products |-> products, res |-> None]
    ELSE LET i == IndexOfId(products, id)
             merged == Merge(products[i],
                             [k \in DOMAIN update_data |->
                                 Unwrap(k, update_data[k])])
         IN  IF ~ProductInvariants(merged)
             THEN [ok |-> FALSE, products |-> products, res |-> None]
             ELSE [ok |-> TRUE,
                   products |-> [products EXCEPT ![i] = merged],
                   res |-> Some(merged)]

---------------------------------------------------------------------------
(* main.py: list_products helpers *)

\* dict.get(key, default)
Get(d, k, default) == IF k \in DOMAIN d THEN d[k] ELSE default

Reverse(seq) == [i \in 1..Len(seq) |-> seq[Len(seq) + 1 - i]]

\* Insert x behind every element whose key is not greater (stable)
RECURSIVE InsertByPrice(_, _)
InsertByPrice(sortedSeq, x) ==
    IF sortedSeq = <<>> THEN <<x>>
    ELSE IF Get(Head(sortedSeq), "price", 0) <= Get(x, "price", 0)
         THEN <<Head(sortedSeq)>> \o InsertByPrice(Tail(sortedSeq), x)
         ELSE <<x>> \o sortedSeq

RECURSIVE SortByPrice(_)
SortByPrice(seq) ==
    IF seq = <<>> THEN <<>>
    ELSE InsertByPrice(SortByPrice(SubSeq(seq, 1, Len(seq) - 1)), seq[Len(seq)])

\* A mutant of Sorted: descending order by reversing the ascending result
Sorted_reversed_after(seq, reverse) ==
    IF reverse THEN Reverse(SortByPrice(seq)) ELSE SortByPrice(seq)

\* sorted(products, key=lambda p: p.get("price", 0), reverse=reverse):
\* stable; reverse=True reverses, sorts, and reverses back
Sorted(seq, reverse) ==
    IF reverse THEN Reverse(SortByPrice(Reverse(seq))) ELSE SortByPrice(seq)

\* [p for p in products if needle in p.get("name", "").lower()]
RECURSIVE FilterByName(_, _)
FilterByName(products, needle) ==
    IF products = <<>> THEN <<>>
    ELSE LET rest == FilterByName(Tail(products), needle)
         IN  IF Contains(Lower(Get(Head(products), "name", <<>>)), needle)
             THEN <<Head(products)>> \o rest
             ELSE rest

Min(a, b) == IF a <= b THEN a ELSE b

\* A mutant of Slice: the page starts one element late
Slice_late(seq, lo, hi) == SubSeq(seq, lo + 2, Min(hi, Len(seq)))

\* seq[lo:hi] for 0 <= lo <= hi
Slice(seq, lo, hi) == SubSeq(seq, lo + 1, Min(hi, Len(seq)))

\* A mutant of uuid4: the id is derived from the number of stored products
uuid4_from_count(n, products) == Len(products) + 1

\* str(uuid4()): a UUID no earlier call returned
uuid4(n, products) == n

\* datetime.utcnow().isoformat() + "Z"
utcnow(t) == t

\* for product in products: if product["id"] == product_id: return product
FindById(products, product_id) ==
    IF HasId(products, product_id)
    THEN Some(products[IndexOfId(products, product_id)])
    ELSE None

---------------------------------------------------------------------------
(* main.py: the handlers *)

NoReq == [op |-> "none"]
NoResp == [code |-> 0, body |-> None]

Init ==
    /\ store = <<>>
    /\ nextId = 1
    /\ clock = 1
    /\ pc = "idle"
    /\ req = NoReq
    /\ resp = NoResp
    /\ handed = None
    /\ deleted = {}

\* GET /products
list_products(name, sort_by_price, order, limit, offset) ==
    /\ pc = "idle"
    /\ pc' = "done"
    /\ req' = [op |-> "list", name |-> name, sort_by_price |-> sort_by_price,
               order |-> order, limit |-> limit, offset |-> offset]
    /\ LET dep == get_all_products
           filtered == IF name # None
                       THEN FilterByName(dep, Lower(Strip(name[1])))
                       ELSE dep
           products == IF sort_by_price
                       THEN Sorted(filtered, order = "desc")
                       ELSE filtered
           total == Len(products)
       IN  resp' = IF filtered = <<>>
                   THEN [code |-> 404, body |-> None]
                   ELSE [code |-> 200,
                         body |-> Some([total |-> total, limit |-> limit,
                                        items |-> Slice(products, offset,
                                                        offset + limit)])]
    /\ UNCHANGED <<store, nextId, clock, handed, deleted>>

\* GET /products/{product_id}
get_product_by_id(product_id) ==
    /\ pc = "idle"
    /\ pc' = "done"
    /\ req' = [op |-> "get", id |-> product_id]
    /\ LET found == FindById(get_all_products, product_id)
       IN  resp' = IF found # None
                   THEN [code |-> 200, body |-> found]
                   ELSE [code |-> 404, body |-> None]
    /\ UNCHANGED <<store, nextId, clock, handed, deleted>>

\* POST /products
create_product(product) ==
    /\ pc = "idle"
    /\ pc' = "done"
    /\ req' = [op |-> "create", payload |-> product]
    /\ IF ~Product_valid(product)
       THEN /\ resp' = [code |-> 422, body |-> None]
            /\ UNCHANGED <<store, nextId, clock, handed, deleted>>
       ELSE LET dump == Product_model_dump(product)
                product_dict ==
                    [dump EXCEPT !["id"] = uuid4(nextId, store),
                                 !["created_at"] = utcnow(clock)]
                added == add_product(store, product_dict)
            IN  /\ nextId' = nextId + 1
                /\ clock' = clock + 1
                /\ handed' = Some(product_dict)
                /\ store' = added.products
                /\ resp' = IF added.ok
                           THEN [code |-> 201, body |-> Some(dump)]
                           ELSE [code |-> 400, body |-> None]
                /\ UNCHANGED deleted

\* DELETE /products/{product_id}
delete_product(product_id) ==
    /\ pc = "idle"
    /\ pc' = "done"
    /\ req' = [op |-> "delete", id |-> product_id]
    /\ LET removed == remove_product(store, product_id)
       IN  /\ store' = removed.products
           /\ resp' = IF removed.ok
                      THEN [code |-> 200, body |-> removed.res]
                      ELSE [code |-> 400, body |-> None]
           /\ deleted' = IF removed.ok THEN deleted \cup {product_id}
                         ELSE deleted
    /\ UNCHANGED <<nextId, clock, handed>>

\* PUT /products/{product_id}
update_product(product_id, payload) ==
    /\ pc = "idle"
    /\ pc' = "done"
    /\ req' = [op |-> "update", id |-> product_id, payload |-> payload]
    /\ LET checked == ProductUpdate_validate(payload)
       IN  IF checked = "ValueError"
           THEN /\ resp' = [code |-> 422, body |-> None]
                /\ UNCHANGED <<store, handed>>
           ELSE IF \/ checked = "TypeError"
                   \/ ProductUpdate_final_price_raises(payload)
                   \/ ProductUpdate_volume_cm3_raises(payload)
           THEN /\ resp' = [code |-> 500, body |-> None]
                /\ UNCHANGED <<store, handed>>
           ELSE LET update_data == ProductUpdate_model_dump(payload)
                    changed == change_product(store, product_id, update_data)
                IN  /\ handed' = Some(update_data)
                    /\ store' = changed.products
                    /\ resp' = IF changed.ok
                               THEN [code |-> 200, body |-> changed.res]
                               ELSE [code |-> 404, body |-> None]
    /\ UNCHANGED <<nextId, clock, deleted>>

\* The client takes the response; the server is ready for the next request
Receive ==
    /\ pc = "done"
    /\ pc' = "idle"
    /\ req' = NoReq
    /\ resp' = NoResp
    /\ handed' = None
    /\ UNCHANGED <<store, nextId, clock, deleted>>

---------------------------------------------------------------------------
(* Requests *)

SkuGood == <<"A", "B", "-", "0", "0", "1">>
NameEne == <<"E", "n", "e">>
NameBbb == <<"B", "b", "b">>
DimsGood == [length |-> 1, width |-> 2, height |-> 3]
ImageUrls(n) == [i \in 1..n |-> "https://img"]

ClientTimes == {1}

\* A request body without the keys in S
Without(body, S) == Restrict(body, DOMAIN body \ S)

\* discount_percent and rating of the bodies: one pair the rule accepts, one
\* it rejects
DiscountRatings == {<<0, 4>>, <<10, 0>>}

\* Create bodies of the catalog run: the stock / is_active / image_urls
\* combinations, with a client id and created_at
FullCreateBodies ==
    {[id |-> id, sku |-> SkuGood, name |-> NameEne, price |-> 100,
      discount_percent |-> dr[1], stock |-> stock, is_active |-> is_active,
      rating |-> dr[2], image_urls |-> ImageUrls(n),
      dimensions_cm |-> DimsGood, created_at |-> t] :
        id \in 1..MaxCreates, dr \in DiscountRatings, stock \in {0, 1},
        is_active \in BOOLEAN, n \in 0..MaxImages, t \in ClientTimes}

\* ... and the same bodies as a client without id and created_at sends them
CreateBodies ==
    FullCreateBodies
        \cup {Without(b, {"id", "created_at"}) : b \in FullCreateBodies}

DimsUpdateGood == [k \in DimensionFields |-> Some(DimsGood[k])]
DimsUpdateNoLength == [DimsUpdateGood EXCEPT !["length"] = None]

\* discount_percent and rating of the update bodies: None (the rule raises
\* TypeError), a pair the rule accepts, a pair it rejects
UpdateDiscountRatings ==
    {<<None, Some(4)>>, <<Some(0), Some(4)>>, <<Some(10), Some(0)>>}

\* Update bodies that supply every field, None included
FullUpdateBodies ==
    {[name |-> Some(NameEne), price |-> price, discount_percent |-> dr[1],
      stock |-> stock, is_active |-> is_active, rating |-> dr[2],
      image_urls |-> Some(ImageUrls(n)), dimensions_cm |-> dims] :
        price \in {None, Some(100)}, dr \in UpdateDiscountRatings,
        stock \in {None, Some(0), Some(1)},
        is_active \in {None, Some(TRUE), Some(FALSE)}, n \in {0, 1},
        dims \in {None, Some(DimsUpdateGood), Some(DimsUpdateNoLength)}}

\* Update bodies that supply one field only
PartialUpdateBodies ==
    {Restrict(b, {f}) : b \in FullUpdateBodies, f \in UpdateFields}

UpdateBodies == FullUpdateBodies \cup PartialUpdateBodies

PathIds == 1..MaxCreates

\* The catalog run: create, read, update, delete
Next ==
    \/ /\ pc = "idle"
       /\ \E b \in CreateBodies :
             (~Product_valid(b) \/ nextId <= MaxCreates) /\ create_product(b)
    \/ /\ pc = "idle"
       /\ \E id \in PathIds, b \in UpdateBodies : update_product(id, b)
    \/ \E id \in PathIds : delete_product(id)
    \/ \E id \in PathIds : get_product_by_id(id)
    \/ list_products(None, FALSE, "asc", LimitDefault, 0)
    \/ Receive

Spec == Init /\ [][Next]_vars

---------------------------------------------------------------------------
(* The listing run: products that differ in name and price, and every
   combination of the query parameters *)

ListCreateBodies ==
    {[id |-> 1, sku |-> SkuGood, name |-> name, price |-> price,
      discount_percent |-> 0, stock |-> 1, is_active |-> TRUE, rating |-> 4,
      image_urls |-> ImageUrls(1), dimensions_cm |-> DimsGood,
      created_at |-> 1] :
        name \in {NameEne, NameBbb}, price \in {100, 250}}

ListNames ==
    {None, Some(<<"E", "N", " ">>), Some(<<"b">>), Some(<<"z">>),
     Some(<<" ">>)}

ListLimits == {LimitMin, 2, LimitMax}

NextList ==
    \/ \E b \in ListCreateBodies : nextId <= MaxListed /\ create_product(b)
    \/ \E name \in ListNames, sort_by_price \in BOOLEAN,
          order \in {"asc", "desc"}, limit \in ListLimits,
          offset \in 0..MaxOffset :
          list_products(name, sort_by_price, order, limit, offset)
    \/ Receive

SpecList == Init /\ [][NextList]_vars

---------------------------------------------------------------------------
(* The SKU run: create requests that differ in the SKU only *)

SkuAlphabet == {"-", "0", "A"}
SkuTail == <<"-", "0", "0", "1">>

SkuXiaoGood ==
    <<"X", "I", "A", "O", "-", "3", "5", "9", "G", "B", "-", "0", "0", "1">>
SkuXiaoNoHyphen == <<"X", "I", "A", "O", "G", "B", "1">>
SkuXiaoBadTail ==
    <<"X", "I", "A", "O", "-", "3", "5", "9", "G", "B", "-", "A", "1">>

\* Every string over the alphabet from one character below the minimum
\* length, the three SKUs of the specification, and one SKU at and one
\* beyond the maximum length
SkuInputs ==
    UNION {[1..n -> SkuAlphabet] : n \in (SkuMinLen - 1)..MaxSkuLen}
        \cup {SkuXiaoGood, SkuXiaoNoHyphen, SkuXiaoBadTail}
        \cup {Repeat("A", SkuMaxLen - 4) \o SkuTail,
              Repeat("A", SkuMaxLen - 3) \o SkuTail}

SkuCreateBodies ==
    {[id |-> 1, sku |-> sku, name |-> NameEne, price |-> 100,
      discount_percent |-> 0, stock |-> 1, is_active |-> TRUE, rating |-> 4,
      image_urls |-> ImageUrls(1), dimensions_cm |-> DimsGood,
      created_at |-> 1] : sku \in SkuInputs}

NextSku ==
    \/ \E b \in SkuCreateBodies : store = <<>> /\ create_product(b)
    \/ Receive

SpecSku == Init /\ [][NextSku]_vars

---------------------------------------------------------------------------
(* Properties *)

\* The stored record a partial body would give: the fields it supplies
\* override the stored ones
MergedRecord(stored, payload) ==
    Merge(stored, [k \in DOMAIN payload |-> Unwrap(k, payload[k])])

\* The field k of a body merged onto a stored record; a field that is
\* absent or None leaves the stored value
MergedField(stored, payload, k) ==
    IF k \in DOMAIN payload /\ payload[k] # None THEN payload[k][1]
    ELSE stored[k]

StockRule(r) == r.stock = 0 => r.is_active = FALSE

\* In the step taken: an update of a stored product whose body, merged onto
\* the stored record, has stock 0 and is_active true
UpdateBreaksStockRule ==
    /\ pc = "idle"
    /\ req'.op = "update"
    /\ HasId(store, req'.id)
    /\ LET stored == store[IndexOfId(store, req'.id)]
       IN  /\ MergedField(stored, req'.payload, "stock") = 0
           /\ MergedField(stored, req'.payload, "is_active") = TRUE

PresentValuesGiven(payload) ==
    /\ DOMAIN payload # {}
    /\ \A k \in DOMAIN payload :
          /\ payload[k] # None
          /\ k = "dimensions_cm" =>
                \A d \in DimensionFields : payload[k][1][d] # None

\* C2: an update whose body supplies any subset of the updatable fields (with
\* values that keep the merged record valid) is accepted, changes exactly the
\* supplied fields of the stored record and leaves every other field, id and
\* created_at included, as it was.
C2_PartialUpdateApplied ==
    [][(/\ pc = "idle"
        /\ req'.op = "update"
        /\ HasId(store, req'.id)
        /\ PresentValuesGiven(req'.payload)
        /\ ProductInvariants(
               MergedRecord(store[IndexOfId(store, req'.id)], req'.payload)))
       => LET i == IndexOfId(store, req'.id)
          IN  /\ resp'.code = 200
              /\ store' = [store EXCEPT
                              ![i] = MergedRecord(store[i], req'.payload)]]_vars

\* C3: the body of a 201 response carries the id and created_at the request
\* persisted, and the product stored under the returned id is that record.
C3_CreateReturnsStored ==
    (pc = "done" /\ req.op = "create" /\ resp.code = 201)
        => /\ resp.body[1].id = handed[1].id
           /\ resp.body[1].created_at = handed[1].created_at
           /\ FindById(store, resp.body[1].id) = handed

\* C4: no dict handed to add_product / change_product, and so no stored
\* product, has a final_price or volume_cm3 key.
C4_ComputedNeverPersisted ==
    /\ handed # None => DOMAIN handed[1] \cap ComputedFields = {}
    /\ \A i \in 1..Len(store) : DOMAIN store[i] \cap ComputedFields = {}

\* C5: a create whose image_urls is empty is rejected, a create with one or
\* more image URLs and an otherwise valid body is accepted, and every stored
\* product has at least one image URL.
C5_AtLeastOneImage ==
    /\ \A i \in 1..Len(store) : Len(store[i].image_urls) >= 1
    /\ (pc = "done" /\ req.op = "create"
            /\ "image_urls" \in DOMAIN req.payload)
          => /\ Len(req.payload.image_urls) = 0 => resp.code # 201
             /\ (/\ Len(req.payload.image_urls) >= 1
                 /\ Product_valid([req.payload EXCEPT
                                      !["image_urls"] = ImageUrls(1)]))
                   => resp.code = 201

\* C6: a delete of an id that is not stored answers 404 and leaves the store
\* as it was.
C6_DeleteMissingIs404 ==
    [][(pc = "idle" /\ req'.op = "delete" /\ ~HasId(store, req'.id))
          => (resp'.code = 404 /\ store' = store)]_vars

\* C7: once a delete of an id has succeeded, no stored product has that id,
\* every get-by-id of it answers 404 and no list response holds it, whatever
\* requests came in between.
C7_HardDelete ==
    /\ \A id \in deleted : ~HasId(store, id)
    /\ (pc = "done" /\ req.op = "get" /\ req.id \in deleted)
          => resp.code = 404
    /\ (pc = "done" /\ req.op = "list" /\ resp.code = 200)
          => \A j \in 1..Len(resp.body[1].items) :
                resp.body[1].items[j].id \notin deleted

\* C7 witness: a get-by-id of a deleted id answered 404 while another
\* product, created after the delete, is stored.
C7_Witness ==
    /\ pc = "done"
    /\ req.op = "get"
    /\ req.id \in deleted
    /\ resp.code = 404
    /\ store # <<>>
    /\ \A i \in 1..Len(store) : store[i].id > req.id

\* The positions in the store of the products a list request's name filter
\* keeps: all of them without a name, else those whose lower-cased name holds
\* the stripped, lower-cased name as a substring
MatchingPositions(name) ==
    {i \in 1..Len(store) :
        name = None \/ Contains(Lower(store[i].name), Lower(Strip(name[1])))}

\* The filtered and, if requested, sorted sequence of a list request
ListedSequence(r) ==
    LET filtered == IF r.name = None THEN store
                    ELSE FilterByName(store, Lower(Strip(r.name[1])))
    IN  IF r.sort_by_price THEN Sorted(filtered, r.order = "desc")
        ELSE filtered

Max(a, b) == IF a >= b THEN a ELSE b

\* C8: a list request answers 404 exactly when the name filter keeps nothing;
\* otherwise it answers 200, total is the number of products the filter
\* keeps whatever limit and offset are, and items are the elements at
\* positions [offset, offset + limit) of the filtered (sorted) sequence, none
\* when offset >= total.
C8_Pagination ==
    (pc = "done" /\ req.op = "list")
        => LET matching == MatchingPositions(req.name)
               all == ListedSequence(req)
           IN  /\ resp.code = 404 <=> matching = {}
               /\ matching # {} =>
                     /\ resp.code = 200
                     /\ resp.body[1].total = Cardinality(matching)
                     /\ resp.body[1].limit = req.limit
                     /\ Len(resp.body[1].items)
                           = Max(0, Min(req.limit,
                                        Cardinality(matching) - req.offset))
                     /\ \A j \in 1..Len(resp.body[1].items) :
                           resp.body[1].items[j] = all[req.offset + j]

\* C8 witness: a name filter kept 2 of 3 stored products and the page at
\* offset 1 holds the one element left, with total = 2.
C8_Witness ==
    /\ pc = "done"
    /\ req.op = "list"
    /\ req.name # None
    /\ Len(store) = 3
    /\ resp.code = 200
    /\ resp.body[1].total = 2
    /\ req.offset = 1
    /\ req.limit = 2
    /\ Len(resp.body[1].items) = 1

\* The position in the store of a listed product
StorePosition(item) == IndexOfId(store, item.id)

\* C9: the items of a list response are in price order when sort_by_price is
\* set (non-decreasing for "asc", non-increasing for "desc"), equal prices in
\* the order of the store, and in the order of the store when it is not set;
\* a page that holds the whole result is a permutation of the filtered set.
C9_StableSort ==
    (pc = "done" /\ req.op = "list" /\ resp.code = 200)
        => LET items == resp.body[1].items
               matching == MatchingPositions(req.name)
           IN  /\ \A j, k \in 1..Len(items) :
                     j < k =>
                        IF ~req.sort_by_price
                        THEN StorePosition(items[j]) < StorePosition(items[k])
                        ELSE /\ req.order = "asc"
                                   => items[j].price <= items[k].price
                             /\ req.order = "desc"
                                   => items[j].price >= items[k].price
                             /\ items[j].price = items[k].price
                                   => StorePosition(items[j])
                                          < StorePosition(items[k])
               /\ (req.offset = 0 /\ req.limit >= Cardinality(matching))
                     => /\ Len(items) = Cardinality(matching)
                        /\ \A i \in matching :
                              \E j \in 1..Len(items) : items[j] = store[i]

\* C9 witness: a descending sort of three products, the cheaper two of equal
\* price and listed in the order of the store.
C9_Witness ==
    /\ pc = "done"
    /\ req.op = "list"
    /\ req.sort_by_price
    /\ req.order = "desc"
    /\ resp.code = 200
    /\ Len(resp.body[1].items) = 3
    /\ resp.body[1].items[1].price > resp.body[1].items[2].price
    /\ resp.body[1].items[2].price = resp.body[1].items[3].price
    /\ StorePosition(resp.body[1].items[1]) = 2

\* The SKU rule: a hyphen, no hyphen behind it, and exactly 3 characters
\* behind it, all digits
SkuRule(s) ==
    \E i \in 1..Len(s) :
        /\ s[i] = "-"
        /\ \A j \in (i + 1)..Len(s) : s[j] # "-" /\ s[j] \in Digits
        /\ Len(s) - i = 3

\* C10: a create whose SKU has 6..30 characters (the rest of the body valid)
\* is accepted exactly when the SKU satisfies the rule, and every stored
\* product's SKU satisfies it.
C10_SkuRule ==
    /\ \A i \in 1..Len(store) : SkuRule(store[i].sku)
    /\ (/\ pc = "done"
        /\ req.op = "create"
        /\ Len(req.payload.sku) >= SkuMinLen
        /\ Len(req.payload.sku) <= SkuMaxLen)
          => (resp.code = 201 <=> SkuRule(req.payload.sku))

\* C10 witness: "XIAO-359GB-001" was accepted and stored.
C10_Witness ==
    /\ pc = "done"
    /\ req.op = "create"
    /\ req.payload.sku = SkuXiaoGood
    /\ resp.code = 201
    /\ store # <<>>
    /\ store[1].sku = SkuXiaoGood

============================================================================
